---- MODULE Spec2Model ----
(***************************************************************************)
(* Model of src/src/components/MultiAlarmApp.jsx (rendered by the entry    *)
(* file src/unnamed/part_000 inside React.StrictMode).                     *)
(*                                                                         *)
(* One action per event handler / timer callback.  An action contains the  *)
(* whole React commit that the handler causes: the state updaters it       *)
(* queues, the re-render, and the persistence effects of lines 61-71.      *)
(* JavaScript runs the handlers one at a time (window.confirm in           *)
(* triggerAlarm blocks the thread), so every action is atomic.             *)
(*                                                                         *)
(* Not modelled: Alarm.createdAt, SoundAsset.size / uploadedAt (written    *)
(* once, never read), previewSound, the notification permission request,   *)
(* the timeValue / labelValue form fields (an input of addAlarm here).     *)
(***************************************************************************)
EXTENDS Integers, Sequences, FiniteSets, TLC

VARIABLES
    phase,           \* "closed" | "mounted" | "crashed" (tree unmounted by a render error)
    store,           \* localStorage: [alarms, sounds], each a stored value
    alarms,          \* useState alarms (line 39)
    uploadedSounds,  \* useState uploadedSounds (line 51)
    mountSounds,     \* uploadedSounds as captured by the interval closure (line 75, deps [])
    audioRefs,       \* useRef audioRefs (line 58): sound id -> src of the Audio element
    now,             \* wall clock, [h, m]
    nextUrl,         \* number of object URLs created so far (URL.createObjectURL)
    poll,            \* [timers: the setInterval handles that are active, tickRef: tickRef.current (line 59)]
    globalColor,     \* useState globalColor (line 50)
    storeTheme,      \* localStorage "alarm_theme_color"
    fired,           \* the triggerAlarm calls made by the last step, in call order
    last,            \* the last operation: [op, cur, id, hit]; hit = indexes of the alarms it fired / cleared
    hist,            \* history, one entry per persisted/in-memory alarm (same order)
    track            \* whether hist is kept (constant along a behaviour)

vars == <<phase, store, alarms, uploadedSounds, mountSounds, audioRefs, now,
          nextUrl, poll, globalColor, storeTheme, fired, last, hist, track>>

----------------------------------------------------------------------------
(* Bounds *)

\* addAlarm is not taken once the list holds this many alarms
MaxAlarms == 2

\* handleFileUpload is not taken once this many object URLs have been created
MaxUploads == 2

----------------------------------------------------------------------------
(* Values *)

\* JavaScript null / undefined
NULL == "<null>"

\* what uid() can return; Math.random may repeat a value
UidValues == {"k1", "k2"}

\* the value of the <input type="time"> when the form is submitted
TimeValues == {"", "07:00", "07:01"}

\* the value of the label input
LabelValues == {""}

\* File.name of an uploaded file
FileNames == {"a.mp3"}

\* the minutes of the day the clock passes through, in order, cyclically
ClockSamples == << [h |-> 7, m |-> 0], [h |-> 7, m |-> 1] >>

\* how many times React runs a state updater for one setState call:
\* once, or twice under React.StrictMode in a development build
UpdaterInvocations == {1, 2}

\* what localStorage can hold under a key after the value the app wrote is lost
\* or damaged: nothing; text JSON.parse rejects; JSON text of a value that is
\* not an array (null, {}, 0, ...)
CorruptKinds == {"absent", "unparsable", "notalist"}

\* the handles setInterval can return
TimerIds == {1, 2}

\* the initial value of globalColor when nothing is stored (line 50)
DefaultColor == "#4f46e5"

\* the values the <input type="color"> can report
ColorValues == {"#4f46e5", "#000000"}

Truthy(v) == v # NULL /\ v # ""

Min(S) == CHOOSE x \in S : \A y \in S : x <= y

\* the elements of s at the indexes in keep, in order
SelectIdx(s, keep) ==
    LET F[i \in 0..Len(s)] ==
            IF i = 0 THEN << >>
            ELSE IF i \in keep THEN Append(F[i-1], s[i]) ELSE F[i-1]
    IN  F[Len(s)]

MapSeq(s, F(_)) == [i \in 1..Len(s) |-> F(s[i])]

----------------------------------------------------------------------------
(* uid, clock formatting, persistence *)

uid == UidValues

\* String(n).padStart(2, "0")
padStart2(n) == IF Len(ToString(n)) < 2 THEN "0" \o ToString(n) ELSE ToString(n)

\* const cur = `${hh}:${mm}`
Cur(t) == padStart2(t.h) \o ":" \o padStart2(t.m)

\* URL.createObjectURL: a handle never handed out before
createObjectURL(n) == "blob:" \o ToString(n)

\* JSON.stringify of a list of plain records
JSONstringify(list) == [kind |-> "list", items |-> list]

\* the useState initialisers: raw ? JSON.parse(raw) : [] inside try/catch
LoadList(raw) ==
    IF raw.kind = "absent" THEN [kind |-> "list", items |-> << >>]
    ELSE IF raw.kind = "unparsable" THEN [kind |-> "list", items |-> << >>]
    ELSE [kind |-> raw.kind, items |-> raw.items]

\* rendering calls alarms.length / alarms.map and uploadedSounds.map
RenderThrows(a, s) == a.kind # "list" \/ s.kind # "list"

\* the persistence effects without the one of lines 69-71
Persist_AlarmsOnly(as, ss) == [store EXCEPT !.alarms = JSONstringify(as)]

\* the two persistence effects (lines 61-63, 69-71)
Persist(as, ss) == [alarms |-> JSONstringify(as), sounds |-> JSONstringify(ss)]

\* localStorage.getItem("alarm_theme_color") || "#4f46e5" (line 50)
LoadColor(raw) == IF Truthy(raw) THEN raw ELSE DefaultColor

\* no interval has been started; tickRef.current is undefined (0 here)
NoPoll == [timers |-> {}, tickRef |-> 0]

\* line 75: tickRef.current = setInterval(...), a handle that is not in use
setInterval(p) ==
    LET t == Min(TimerIds \ p.timers)
    IN  [timers |-> p.timers \cup {t}, tickRef |-> t]

\* line 96 clearing no interval
clearInterval_ClearsNothing(p) == p

\* line 96: the cleanup, clearInterval(tickRef.current)
clearInterval(p) == [p EXCEPT !.timers = p.timers \ {p.tickRef}]

\* the interval effect when the component mounts: run once, or run, cleaned up
\* and run again under React.StrictMode in a development build
PollAfterMount(n) ==
    IF n = 2 THEN setInterval(clearInterval(setInterval(NoPoll)))
    ELSE setInterval(NoPoll)

NoRefs == [k \in UidValues |-> NULL]

\* the restore effect (lines 109-114): first sound of an id wins
RestoreRefs(ss) ==
    [k \in UidValues |->
        LET at == {i \in 1..Len(ss) : ss[i].id = k}
        IN  IF at = {} THEN NULL ELSE ss[Min(at)].url]

----------------------------------------------------------------------------
(* The tick updater (lines 83-93) *)

\* line 84 without its a.enabled test
Fires_IgnoresEnabled(a, cur) == ~Truthy(a.lastTriggeredMinute) /\ a.time = cur

\* line 84 without its !a._lastTriggeredMinute test
Fires_IgnoresMarker(a, cur) == a.enabled /\ a.time = cur

\* line 84
Fires(a, cur) == a.enabled /\ ~Truthy(a.lastTriggeredMinute) /\ a.time = cur

\* line 89 guarded by a.enabled
Stale_OnlyEnabled(a, cur) ==
    a.enabled /\ Truthy(a.lastTriggeredMinute) /\ a.lastTriggeredMinute # cur

\* line 89
Stale(a, cur) == Truthy(a.lastTriggeredMinute) /\ a.lastTriggeredMinute # cur

\* lines 84-92 switching a fired alarm off
TickAlarm_DisablesFired(a, cur) ==
    IF Fires(a, cur) THEN [a EXCEPT !.lastTriggeredMinute = cur, !.enabled = FALSE]
    ELSE IF Stale(a, cur) THEN [a EXCEPT !.lastTriggeredMinute = NULL]
    ELSE a

\* lines 84-92
TickAlarm(a, cur) ==
    IF Fires(a, cur) THEN [a EXCEPT !.lastTriggeredMinute = cur]
    ELSE IF Stale(a, cur) THEN [a EXCEPT !.lastTriggeredMinute = NULL]
    ELSE a

\* uploadedSounds.find(s => s.id === id): index of the first match, 0 when none
FindSound(ss, id) ==
    LET at == {i \in 1..Len(ss) : ss[i].id = id}
    IN  IF at = {} THEN 0 ELSE Min(at)

\* new Audio(): no src
DefaultAudio == ""

\* lines 155-162: the src of the Audio element that triggerAlarm plays
PlayedHandle(a, ss, refs) ==
    LET at == FindSound(ss, a.soundId)
    IN  IF at = 0 THEN DefaultAudio
        ELSE IF refs[ss[at].id] # NULL THEN refs[ss[at].id] ELSE ss[at].url

\* line 159: audioRefs.current[sound.id] = audio
RefsAfterTrigger(a, ss, refs) ==
    LET at == FindSound(ss, a.soundId)
    IN  IF at = 0 THEN refs
        ELSE IF refs[ss[at].id] # NULL THEN refs
        ELSE [refs EXCEPT ![ss[at].id] = ss[at].url]

\* audioRefs after triggerAlarm has run to the end for each alarm of called
RefsAfterCalls(called, ss, refs) ==
    LET F[j \in 0..Len(called)] ==
            IF j = 0 THEN refs ELSE RefsAfterTrigger(called[j], ss, F[j-1])
    IN  F[Len(called)]

\* What can happen inside one triggerAlarm call of a tick that fires k alarms:
\* every call succeeds; or call number `at` has its play() promise rejected
\* (caught at line 164); or call number `at` throws at `new Notification`
\* (line 151, not caught).
TriggerFailures(k) ==
    {[at |-> 0, kind |-> "ok"]} \cup
    {[at |-> j, kind |-> kd] : j \in 1..k, kd \in {"rejected", "threw"}}

\* indexes of the alarms the updater passes to triggerAlarm, in map order
FiringIdx(as, cur) ==
    SelectIdx([i \in 1..Len(as) |-> i], {i \in 1..Len(as) : Fires(as[i], cur)})

\* The answer to window.confirm (line 171) in a tick that fires k alarms: OK
\* every time (0), or Cancel in call number j, a call whose playback started
Declines(k, fail) ==
    {0} \cup {j \in 1..k : j # fail.at /\ (fail.kind = "threw" => j < fail.at)}

\* the triggerAlarm calls of one run of the updater; a throw ends the run.
\* halted: lines 175-176 ran (audio.pause(); audio.currentTime = 0)
CallsOnce(as, cur, ss, refs, fail, decl) ==
    LET firing == FiringIdx(as, cur)
        upto   == IF fail.kind = "threw" THEN fail.at ELSE Len(firing)
    IN  [j \in 1..upto |->
            [idx     |-> firing[j],
             alarm   |-> as[firing[j]],
             handle  |-> IF j = fail.at /\ fail.kind = "threw" THEN NULL
                         ELSE PlayedHandle(as[firing[j]], ss, refs),
             outcome |-> IF j = fail.at THEN fail.kind ELSE "ok",
             halted  |-> ~(j = fail.at /\ fail.kind = "threw") /\ j # decl]]

Repeat(s, n) == IF n = 2 THEN s \o s ELSE s

----------------------------------------------------------------------------
(* History kept for the properties, one entry per alarm:                   *)
(*   bucket    the bucket of the tick that last passed it to triggerAlarm  *)
(*   moved     the clock has left that bucket since                        *)
(*   sameSince every tick since then observed that same bucket, and the    *)
(*             page has not been reopened                                  *)

NeverFired == [bucket |-> NULL, moved |-> FALSE, sameSince |-> FALSE]

HistAfterTick(h, wasCalled, cur) ==
    IF wasCalled
    THEN [bucket |-> cur, moved |-> FALSE, sameSince |-> TRUE]
    ELSE IF h.bucket # NULL /\ h.bucket # cur THEN [h EXCEPT !.sameSince = FALSE]
    ELSE h

\* the page is reopened: the stored alarms come back, or none if the key is
\* not a stored list
HistAfterLoad(hs, raw) ==
    IF raw.kind = "list" THEN MapSeq(hs, LAMBDA h : [h EXCEPT !.sameSince = FALSE]) ELSE << >>

----------------------------------------------------------------------------
(* Initial state: the page is not open and localStorage is empty *)

Absent == [kind |-> "absent", items |-> << >>]

Op(name, cur, id, hit) == [op |-> name, cur |-> cur, id |-> id, hit |-> hit]

Init ==
    /\ phase = "closed"
    /\ store = [alarms |-> Absent, sounds |-> Absent]
    /\ alarms = << >>
    /\ uploadedSounds = << >>
    /\ mountSounds = << >>
    /\ audioRefs = NoRefs
    /\ now = ClockSamples[1]
    /\ nextUrl = 0
    /\ poll = NoPoll
    /\ globalColor = NULL
    /\ storeTheme = NULL
    /\ fired = << >>
    /\ last = Op("init", NULL, NULL, {})
    /\ hist = << >>
    /\ track = FALSE

----------------------------------------------------------------------------
(* Lifecycle *)

Unmounted ==
    /\ alarms' = << >>
    /\ uploadedSounds' = << >>
    /\ mountSounds' = << >>
    /\ audioRefs' = NoRefs
    /\ globalColor' = NULL

\* The page is opened: useState initialisers (39-56), first render, then the
\* effects: persistence (61-71), setInterval (73-97), restore audioRefs (109-114)
Mount ==
    /\ phase = "closed"
    /\ LET a == LoadList(store.alarms)
           s == LoadList(store.sounds)
       IN  IF RenderThrows(a, s)
           THEN /\ phase' = "crashed"
                /\ Unmounted
                /\ poll' = NoPoll
                /\ UNCHANGED <<store, storeTheme>>
                /\ hist' = HistAfterLoad(hist, store.alarms)
           ELSE /\ phase' = "mounted"
                /\ alarms' = a.items
                /\ uploadedSounds' = s.items
                /\ mountSounds' = s.items
                /\ audioRefs' = RestoreRefs(s.items)
                /\ globalColor' = LoadColor(storeTheme)
                /\ store' = Persist(a.items, s.items)
                /\ storeTheme' = globalColor'
                /\ \E n \in UpdaterInvocations : poll' = PollAfterMount(n)
                /\ hist' = HistAfterLoad(hist, store.alarms)
    /\ fired' = << >>
    /\ last' = Op("mount", NULL, NULL, {})
    /\ UNCHANGED <<now, nextUrl, track>>

\* The page is closed or reloaded: the document goes away with its timers
Close ==
    /\ phase \in {"mounted", "crashed"}
    /\ phase' = "closed"
    /\ Unmounted
    /\ poll' = NoPoll
    /\ fired' = << >>
    /\ last' = Op("other", NULL, NULL, {})
    /\ UNCHANGED <<store, storeTheme, now, nextUrl, hist, track>>

\* While the page is closed a localStorage key is lost or damaged
CorruptStore(key, kind) ==
    /\ phase = "closed"
    /\ store[key].kind # kind
    /\ store' = [store EXCEPT ![key] = [kind |-> kind, items |-> << >>]]
    /\ hist' = IF key = "alarms" THEN << >> ELSE hist
    /\ fired' = << >>
    /\ last' = Op("other", NULL, NULL, {})
    /\ UNCHANGED <<phase, alarms, uploadedSounds, mountSounds, audioRefs, now, nextUrl,
                   poll, globalColor, storeTheme, track>>

\* A minute passes
ClockAdvance ==
    /\ \E j \in 1..Len(ClockSamples) :
          /\ now = ClockSamples[j]
          /\ now' = ClockSamples[(j % Len(ClockSamples)) + 1]
    /\ hist' = MapSeq(hist, LAMBDA h : IF h.bucket # NULL THEN [h EXCEPT !.moved = TRUE] ELSE h)
    /\ fired' = << >>
    /\ last' = Op("other", NULL, NULL, {})
    /\ UNCHANGED <<phase, store, alarms, uploadedSounds, mountSounds, audioRefs, nextUrl,
                   poll, globalColor, storeTheme, track>>

----------------------------------------------------------------------------
(* The poll tick (lines 75-95) *)

Tick ==
    /\ poll.timers # {}
    /\ IF phase # "mounted"
       THEN \* an interval that outlived the component: React drops the update
            /\ fired' = << >>
            /\ last' = Op("tick", Cur(now), NULL, {})
            /\ UNCHANGED <<phase, store, alarms, uploadedSounds, mountSounds, audioRefs, now,
                           nextUrl, poll, globalColor, storeTheme, hist, track>>
       ELSE
         LET cur == Cur(now)
             firing == FiringIdx(alarms, cur)
         IN  \E n \in UpdaterInvocations, fail \in TriggerFailures(Len(firing)) :
              \E decl \in Declines(Len(firing), fail) :
               LET once   == CallsOnce(alarms, cur, mountSounds, audioRefs, fail, decl)
                   called == {once[j].idx : j \in 1..Len(once)}
               IN  /\ fired' = Repeat(once, n)
                   /\ last' = Op("tick", cur, NULL, called)
                   /\ hist' = [i \in 1..Len(hist) |-> HistAfterTick(hist[i], i \in called, cur)]
                   /\ UNCHANGED <<now, nextUrl, storeTheme, track>>
                   /\ IF fail.kind = "threw"
                      THEN \* the updater throws while rendering: React unmounts the
                           \* tree and runs the cleanup of line 96
                           /\ phase' = "crashed"
                           /\ Unmounted
                           /\ poll' = clearInterval(poll)
                           /\ UNCHANGED store
                      ELSE /\ phase' = "mounted"
                           /\ alarms' = MapSeq(alarms, LAMBDA a : TickAlarm(a, cur))
                           /\ audioRefs' = RefsAfterCalls(MapSeq(once, LAMBDA c : c.alarm),
                                                          mountSounds, audioRefs)
                           /\ store' = Persist(alarms', uploadedSounds)
                           /\ UNCHANGED <<uploadedSounds, mountSounds, poll, globalColor>>

----------------------------------------------------------------------------
(* User operations *)

\* lines 116-133
NewAlarm(id, timeValue, labelValue, ss) ==
    [id       |-> id,
     time     |-> timeValue,
     label    |-> IF Truthy(labelValue) THEN labelValue ELSE "Alarm",
     enabled  |-> TRUE,
     soundId  |-> IF Len(ss) > 0 /\ Truthy(ss[1].id) THEN ss[1].id ELSE NULL,
     soundName |-> IF Len(ss) > 0 /\ Truthy(ss[1].name) THEN ss[1].name ELSE "Default",
     lastTriggeredMinute |-> NULL]

addAlarm(timeValue, labelValue, id) ==
    /\ phase = "mounted"
    /\ Len(alarms) < MaxAlarms
    /\ IF ~Truthy(timeValue)
       THEN UNCHANGED vars      \* line 118: if (!timeValue) return
       ELSE /\ alarms' = Append(alarms, NewAlarm(id, timeValue, labelValue, uploadedSounds))
            /\ hist' = IF track THEN Append(hist, NeverFired) ELSE hist
            /\ store' = Persist(alarms', uploadedSounds)
            /\ fired' = << >>
            /\ last' = Op("other", NULL, NULL, {})
            /\ UNCHANGED <<phase, uploadedSounds, mountSounds, audioRefs, now, nextUrl,
                           poll, globalColor, storeTheme, track>>

\* lines 135-137
RemoveAlarmList(as, id) == SelectSeq(as, LAMBDA a : a.id # id)

removeAlarm(id) ==
    /\ phase = "mounted"
    /\ \E i \in 1..Len(alarms) : alarms[i].id = id
    /\ alarms' = RemoveAlarmList(alarms, id)
    /\ hist' = SelectIdx(hist, {i \in 1..Len(alarms) : alarms[i].id # id})
    /\ store' = Persist(alarms', uploadedSounds)
    /\ fired' = << >>
    /\ last' = Op("other", NULL, NULL, {})
    /\ UNCHANGED <<phase, uploadedSounds, mountSounds, audioRefs, now, nextUrl,
                   poll, globalColor, storeTheme, track>>

\* lines 139-141 building the toggled alarm without its marker
ToggleAlarmList_DropsMarker(as, id) ==
    MapSeq(as, LAMBDA a : IF a.id = id
                          THEN [a EXCEPT !.enabled = ~a.enabled, !.lastTriggeredMinute = NULL]
                          ELSE a)

\* lines 139-141
ToggleAlarmList(as, id) ==
    MapSeq(as, LAMBDA a : IF a.id = id THEN [a EXCEPT !.enabled = ~a.enabled] ELSE a)

toggleAlarm(id) ==
    /\ phase = "mounted"
    /\ \E i \in 1..Len(alarms) : alarms[i].id = id
    /\ alarms' = ToggleAlarmList(alarms, id)
    /\ store' = Persist(alarms', uploadedSounds)
    /\ fired' = << >>
    /\ last' = Op("other", NULL, NULL, {})
    /\ UNCHANGED <<phase, uploadedSounds, mountSounds, audioRefs, now, nextUrl,
                   poll, globalColor, storeTheme, hist, track>>

\* lines 143-146 building the changed alarm without its marker
UpdateAlarmSoundList_DropsMarker(as, ss, alarmId, soundId) ==
    MapSeq(as, LAMBDA a : IF a.id = alarmId
                          THEN [a EXCEPT !.soundId = NULL, !.soundName = "Default",
                                         !.lastTriggeredMinute = NULL]
                          ELSE a)

\* lines 143-146; soundId is the value of the chosen <option>: "" or a listed sound's id
UpdateAlarmSoundList(as, ss, alarmId, soundId) ==
    LET at == FindSound(ss, soundId)
        sid == IF at # 0 /\ Truthy(ss[at].id) THEN ss[at].id ELSE NULL
        snm == IF at # 0 /\ Truthy(ss[at].name) THEN ss[at].name ELSE "Default"
    IN  MapSeq(as, LAMBDA a : IF a.id = alarmId
                              THEN [a EXCEPT !.soundId = sid, !.soundName = snm]
                              ELSE a)

updateAlarmSound(alarmId, soundId) ==
    /\ phase = "mounted"
    /\ \E i \in 1..Len(alarms) : alarms[i].id = alarmId
    /\ soundId = "" \/ \E i \in 1..Len(uploadedSounds) : uploadedSounds[i].id = soundId
    /\ alarms' = UpdateAlarmSoundList(alarms, uploadedSounds, alarmId, soundId)
    /\ store' = Persist(alarms', uploadedSounds)
    /\ fired' = << >>
    /\ last' = Op("other", NULL, NULL, {})
    /\ UNCHANGED <<phase, uploadedSounds, mountSounds, audioRefs, now, nextUrl,
                   poll, globalColor, storeTheme, hist, track>>

\* the "Clear all" button: setAlarms([])
clearAll ==
    /\ phase = "mounted"
    /\ alarms' = << >>
    /\ hist' = << >>
    /\ store' = Persist(alarms', uploadedSounds)
    /\ fired' = << >>
    /\ last' = Op("other", NULL, NULL, {})
    /\ UNCHANGED <<phase, uploadedSounds, mountSounds, audioRefs, now, nextUrl,
                   poll, globalColor, storeTheme, track>>

\* the colour picker (line 275) and the theme persistence effect (lines 65-67)
setGlobalColor(c) ==
    /\ phase = "mounted"
    /\ c # globalColor
    /\ globalColor' = c
    /\ storeTheme' = c
    /\ fired' = << >>
    /\ last' = Op("other", NULL, NULL, {})
    /\ UNCHANGED <<phase, store, alarms, uploadedSounds, mountSounds, audioRefs, now,
                   nextUrl, poll, hist, track>>

\* lines 180-196; files is the list of chosen files, each given its uid() here
NewItems(files, n) ==
    [j \in 1..Len(files) |->
        [id |-> files[j].id, name |-> files[j].name, url |-> createObjectURL(n + j)]]

\* line 193: newItems.forEach(it => audioRefs.current[it.id] = new Audio(it.url))
PreloadRefs(items, refs) ==
    [k \in UidValues |->
        LET at == {j \in 1..Len(items) : items[j].id = k}
        IN  IF at = {} THEN refs[k] ELSE items[CHOOSE j \in at : \A y \in at : y <= j].url]

handleFileUpload(files) ==
    /\ phase = "mounted"
    /\ Len(files) > 0
    /\ nextUrl + Len(files) <= MaxUploads
    /\ LET newItems == NewItems(files, nextUrl)
       IN  /\ uploadedSounds' = newItems \o uploadedSounds
           /\ audioRefs' = PreloadRefs(newItems, audioRefs)
    /\ nextUrl' = nextUrl + Len(files)
    /\ store' = Persist(alarms, uploadedSounds')
    /\ fired' = << >>
    /\ last' = Op("other", NULL, NULL, {})
    /\ UNCHANGED <<phase, alarms, mountSounds, now,
                   poll, globalColor, storeTheme, hist, track>>

\* lines 206-211
RemoveSoundList(ss, id) == SelectSeq(ss, LAMBDA x : x.id # id)

\* line 210 without its a.soundId === id test
RemoveSoundAlarms_ClearsAll(as, id) ==
    MapSeq(as, LAMBDA a : [a EXCEPT !.soundId = NULL, !.soundName = "Default"])

RemoveSoundAlarms(as, id) ==
    MapSeq(as, LAMBDA a : IF a.soundId = id
                          THEN [a EXCEPT !.soundId = NULL, !.soundName = "Default"]
                          ELSE a)

removeSound(id) ==
    /\ phase = "mounted"
    /\ \E i \in 1..Len(uploadedSounds) : uploadedSounds[i].id = id
    /\ uploadedSounds' = RemoveSoundList(uploadedSounds, id)
    /\ alarms' = RemoveSoundAlarms(alarms, id)
    /\ store' = Persist(alarms', uploadedSounds')
    /\ fired' = << >>
    /\ last' = Op("removeSound", NULL, id, {i \in 1..Len(alarms) : alarms[i].soundId = id})
    /\ UNCHANGED <<phase, mountSounds, audioRefs, now, nextUrl,
                   poll, globalColor, storeTheme, hist, track>>

----------------------------------------------------------------------------

Files == [id : uid, name : FileNames]

\* one file is chosen per change event of the file input
FileLists == {<<f>> : f \in Files}

\* the steps of the program with the colour picker left alone (the theme stays
\* as stored); NextTheme below adds the picker
Next ==
    \/ Mount
    \/ Close
    \/ \E key \in {"alarms", "sounds"}, kind \in CorruptKinds : CorruptStore(key, kind)
    \/ ClockAdvance
    \/ Tick
    \/ \E t \in TimeValues, l \in LabelValues, id \in uid : addAlarm(t, l, id)
    \/ \E id \in UidValues : removeAlarm(id)
    \/ \E id \in UidValues : toggleAlarm(id)
    \/ \E id \in UidValues, sid \in UidValues \cup {""} : updateAlarmSound(id, sid)
    \/ clearAll
    \/ \E files \in FileLists : handleFileUpload(files)
    \/ \E id \in UidValues : removeSound(id)

Spec == Init /\ [][Next]_vars

\* the same program with the history kept, started after one object URL has
\* been created and the stored data cleared
InitHist ==
    /\ phase = "closed"
    /\ store = [alarms |-> Absent, sounds |-> Absent]
    /\ alarms = << >>
    /\ uploadedSounds = << >>
    /\ mountSounds = << >>
    /\ audioRefs = NoRefs
    /\ now = ClockSamples[1]
    /\ nextUrl = MaxUploads - 1
    /\ poll = NoPoll
    /\ globalColor = NULL
    /\ storeTheme = NULL
    /\ fired = << >>
    /\ last = Op("init", NULL, NULL, {})
    /\ hist = << >>
    /\ track = TRUE

SpecHist == InitHist /\ [][Next]_vars

\* the same program with the colour picker in use, started after one object
\* URL has been created and the stored data cleared
InitTheme ==
    /\ phase = "closed"
    /\ store = [alarms |-> Absent, sounds |-> Absent]
    /\ alarms = << >>
    /\ uploadedSounds = << >>
    /\ mountSounds = << >>
    /\ audioRefs = NoRefs
    /\ now = ClockSamples[1]
    /\ nextUrl = MaxUploads - 1
    /\ poll = NoPoll
    /\ globalColor = NULL
    /\ storeTheme = NULL
    /\ fired = << >>
    /\ last = Op("init", NULL, NULL, {})
    /\ hist = << >>
    /\ track = FALSE

NextTheme ==
    \/ Next
    \/ \E c \in ColorValues : setGlobalColor(c)

SpecTheme == InitTheme /\ [][NextTheme]_vars

----------------------------------------------------------------------------
(* Properties *)

\* the number of triggerAlarm calls in calls made for the alarm at index i
CallCount(calls, i) == Cardinality({j \in 1..Len(calls) : calls[j].idx = i})

Unset(a) == a.lastTriggeredMinute = NULL

\* C1: no tick ever passes a disabled alarm to triggerAlarm: every call of the
\* last step was made with an alarm whose enabled flag is true.
C1_DisabledNeverFired ==
    \A j \in 1..Len(fired) : fired[j].alarm.enabled

\* a tick has just run over a disabled alarm whose time is the tick's bucket
\* and whose marker is unset, and made no call for it
C1_Witness ==
    /\ last.op = "tick"
    /\ phase = "mounted"
    /\ \E i \in 1..Len(alarms) :
          /\ ~alarms[i].enabled
          /\ alarms[i].time = last.cur
          /\ Unset(alarms[i])
          /\ CallCount(fired, i) = 0

\* C2: a tick over an enabled alarm whose time is the tick's bucket and whose
\* marker is unset calls triggerAlarm for it exactly once and leaves its marker
\* equal to the bucket.
C2_FiresExactlyOnce ==
    [][(last'.op = "tick" /\ phase = "mounted") =>
          \A i \in 1..Len(alarms) :
             (alarms[i].enabled /\ alarms[i].time = last'.cur /\ Unset(alarms[i]))
             => /\ CallCount(fired', i) = 1
                /\ Len(alarms') = Len(alarms)
                /\ alarms'[i].lastTriggeredMinute = last'.cur]_vars

\* C3: once an alarm has been fired in bucket B, no tick that observes B fires
\* it again for as long as every tick since has observed B, whatever
\* toggleAlarm / updateAlarmSound (or other) operations come in between.
C3_IdempotentWithinBucket ==
    [][(last'.op = "tick" /\ phase = "mounted") =>
          \A i \in 1..Len(hist) :
             (hist[i].bucket = last'.cur /\ hist[i].sameSince)
             => CallCount(fired', i) = 0]_vars

\* a later tick has just observed the bucket in which an enabled alarm was
\* fired by an earlier tick, and made no call
C3_Witness ==
    /\ last.op = "tick"
    /\ phase = "mounted"
    /\ fired = << >>
    /\ \E i \in 1..Len(alarms) :
          /\ alarms[i].enabled
          /\ alarms[i].time = last.cur
          /\ hist[i].bucket = last.cur
          /\ hist[i].sameSince

\* C4: an enabled alarm that has fired, and whose bucket the clock has left
\* since, is fired by every tick that observes the alarm's time.
C4_Rearm ==
    [][(last'.op = "tick" /\ phase = "mounted") =>
          \A i \in 1..Len(hist) :
             (/\ alarms[i].enabled
              /\ alarms[i].time = last'.cur
              /\ hist[i].bucket # NULL
              /\ hist[i].moved)
             => CallCount(fired', i) >= 1]_vars

\* C5: after a tick that observed bucket B every alarm's marker is unset or B,
\* and a marker that is set is the bucket the alarm last fired in.
C5_MarkerInvariant ==
    (last.op = "tick" /\ phase = "mounted") =>
        \A i \in 1..Len(alarms) :
           /\ alarms[i].lastTriggeredMinute \in {NULL, last.cur}
           /\ Truthy(alarms[i].lastTriggeredMinute)
              => hist[i].bucket = alarms[i].lastTriggeredMinute

\* a tick has just run over a disabled alarm that fired in another bucket
\* (its marker is cleared) and over an alarm it marked
C5_Witness ==
    /\ last.op = "tick"
    /\ phase = "mounted"
    /\ \E i, k \in 1..Len(alarms) :
          /\ ~alarms[i].enabled
          /\ hist[i].bucket # NULL
          /\ hist[i].bucket # last.cur
          /\ Unset(alarms[i])
          /\ alarms[k].lastTriggeredMinute = last.cur

\* C6: removeSound(id) leaves no asset with that id in the registry and keeps
\* the other assets in order; it keeps the alarm list's length and order, sets
\* soundId to null on the alarms whose soundId was id without touching their
\* id, time, label, enabled or marker, and leaves every other alarm as it was.
C6_RemoveSoundFrame ==
    [][last'.op = "removeSound" =>
          /\ uploadedSounds' =
                SelectIdx(uploadedSounds,
                          {k \in 1..Len(uploadedSounds) : uploadedSounds[k].id # last'.id})
          /\ Len(alarms') = Len(alarms)
          /\ \A i \in 1..Len(alarms) :
                IF alarms[i].soundId = last'.id
                THEN /\ alarms'[i].soundId = NULL
                     /\ alarms'[i].id = alarms[i].id
                     /\ alarms'[i].time = alarms[i].time
                     /\ alarms'[i].label = alarms[i].label
                     /\ alarms'[i].enabled = alarms[i].enabled
                     /\ alarms'[i].lastTriggeredMinute = alarms[i].lastTriggeredMinute
                ELSE alarms'[i] = alarms[i]]_vars

\* removeSound has just cleared one alarm and passed over another alarm that
\* references a different, still registered sound
C6_Witness ==
    /\ last.op = "removeSound"
    /\ last.hit # {}
    /\ \E i \in last.hit : alarms[i].soundId = NULL
    /\ \E k \in 1..Len(alarms) :
          /\ k \notin last.hit
          /\ alarms[k].soundId # NULL
          /\ \E u \in 1..Len(uploadedSounds) : uploadedSounds[u].id = alarms[k].soundId

\* C7: while the page is open every alarm's soundId is null or the id of a
\* registered asset.
C7_NoDanglingSound ==
    phase = "mounted" =>
        \A i \in 1..Len(alarms) :
           \/ alarms[i].soundId = NULL
           \/ \E u \in 1..Len(uploadedSounds) : uploadedSounds[u].id = alarms[i].soundId

\* C8: every triggerAlarm call of a tick that got as far as playing plays the
\* handle of a registered asset with the alarm's soundId when there is one,
\* and the default sound otherwise.
C8_ResolvesCurrentRegistry ==
    (last.op = "tick" /\ phase = "mounted") =>
        \A j \in 1..Len(fired) :
           LET at == {u \in 1..Len(uploadedSounds) :
                         uploadedSounds[u].id = fired[j].alarm.soundId}
           IN  IF at # {}
               THEN fired[j].handle \in {uploadedSounds[u].url : u \in at}
               ELSE fired[j].handle = DefaultAudio

\* C9: opening the page never fails, and a stored value that is absent,
\* unparsable or not a list yields the empty list.
C9_StartupNeverFails ==
    [][last'.op = "mount" =>
          /\ phase' = "mounted"
          /\ store.alarms.kind # "list" => alarms' = << >>
          /\ store.sounds.kind # "list" => uploadedSounds' = << >>]_vars

\* C10: when a triggerAlarm call of a tick fails (playback rejected, or an
\* exception), the page stays up and every alarm the tick rule fires is still
\* passed to triggerAlarm and marked.
C10_FailureIsolation ==
    [][(/\ last'.op = "tick"
        /\ phase = "mounted"
        /\ \E j \in 1..Len(fired') : fired'[j].outcome # "ok") =>
          /\ phase' = "mounted"
          /\ Len(alarms') = Len(alarms)
          /\ \A i \in 1..Len(alarms) :
                (alarms[i].enabled /\ alarms[i].time = last'.cur /\ Unset(alarms[i]))
                => /\ CallCount(fired', i) >= 1
                   /\ alarms'[i].lastTriggeredMinute = last'.cur]_vars

\* C11: after the page has been opened from the store, every alarm's
\* _lastTriggeredMinute is unset, whatever it was when the store was written.
C11_MarkerNotCarriedOver ==
    (last.op = "mount" /\ phase = "mounted") =>
        \A i \in 1..Len(alarms) : Unset(alarms[i])

\* C12: the value stored under the sound key never holds a playable handle
\* (url), and no asset restored when the page is opened carries a handle (no
\* handle has been created in the new session at that point).
C12_OnlyMetadataPersisted ==
    /\ \A i \in 1..Len(store.sounds.items) : ~Truthy(store.sounds.items[i].url)
    /\ (last.op = "mount" /\ phase = "mounted") =>
          \A i \in 1..Len(uploadedSounds) : ~Truthy(uploadedSounds[i].url)

\* C14: while the page is open no two alarms of the list share an id and no
\* two sound assets share an id, whatever values uid() returns.
C14_IdsUnique ==
    phase = "mounted" =>
        /\ \A i, k \in 1..Len(alarms) : alarms[i].id = alarms[k].id => i = k
        /\ \A i, k \in 1..Len(uploadedSounds) :
              uploadedSounds[i].id = uploadedSounds[k].id => i = k

\* C13: while the page is open the store holds, under each key, the
\* serialization of the current alarm list, sound list and theme colour, and
\* loading the store yields exactly these values.
C13_WriteThrough ==
    phase = "mounted" =>
        /\ store.alarms = JSONstringify(alarms)
        /\ store.sounds = JSONstringify(uploadedSounds)
        /\ storeTheme = globalColor
        /\ LoadList(store.alarms) = [kind |-> "list", items |-> alarms]
        /\ LoadList(store.sounds) = [kind |-> "list", items |-> uploadedSounds]
        /\ LoadColor(storeTheme) = globalColor

\* the page is open with a marked alarm, an uploaded sound and a theme colour
\* other than the default
C13_Witness ==
    /\ phase = "mounted"
    /\ \E i \in 1..Len(alarms) : ~Unset(alarms[i])
    /\ Len(uploadedSounds) > 0
    /\ globalColor # DefaultColor
    /\ Len(store.alarms.items) = Len(alarms)

\* C15: after every step exactly one interval is active if the component is
\* mounted (also when React.StrictMode has run the effect, its cleanup and the
\* effect again) and none is active otherwise; a step taken while the
\* component is not mounted is no tick and makes no triggerAlarm call.
C15_PollLifecycle ==
    [][/\ phase' = "mounted" => Cardinality(poll'.timers) = 1
       /\ phase' # "mounted" => poll'.timers = {}
       /\ phase # "mounted" => (last'.op # "tick" /\ fired' = << >>)]_vars

\* the component has been unmounted while the page stays open (a tick's
\* updater threw) and the cleanup has cleared the interval it had started
C15_Witness ==
    /\ phase = "crashed"
    /\ last.op = "tick"
    /\ poll.tickRef \in TimerIds
    /\ poll.timers = {}

\* C16: after a tick no playback that a triggerAlarm call of the tick started
\* is left looping: the component offers no stop action other than the prompt
\* of that call, so each such call has halted its playback (pause, position 0).
C16_PlaybackCanBeStopped ==
    last.op = "tick" =>
        \A j \in 1..Len(fired) :
           (fired[j].outcome = "ok" /\ Truthy(fired[j].handle)) => fired[j].halted

\* C17: a tick leaves the stored sound list and theme as they were.  A tick
\* that completes keeps the alarm list's length and order and every alarm's
\* id, time, label, enabled, soundId and soundName, returns unchanged every
\* alarm that neither fires nor has a stale marker, and leaves the sound list
\* and the theme unchanged.  A tick that does not complete leaves the stored
\* alarm list as it was.
C17_TickFrame ==
    [][(last'.op = "tick" /\ phase = "mounted") =>
          /\ store'.sounds = store.sounds
          /\ storeTheme' = storeTheme
          /\ phase' # "mounted" => store' = store
          /\ phase' = "mounted" =>
                /\ uploadedSounds' = uploadedSounds
                /\ globalColor' = globalColor
                /\ Len(alarms') = Len(alarms)
                /\ \A i \in 1..Len(alarms) :
                      LET a == alarms[i]
                          b == alarms'[i]
                          m == a.lastTriggeredMinute
                      IN  /\ b.id = a.id
                          /\ b.time = a.time
                          /\ b.label = a.label
                          /\ b.enabled = a.enabled
                          /\ b.soundId = a.soundId
                          /\ b.soundName = a.soundName
                          /\ (/\ ~(a.enabled /\ a.time = last'.cur /\ ~Truthy(m))
                              /\ ~(Truthy(m) /\ m # last'.cur))
                             => b = a]_vars

\* a tick has just fired one alarm and returned another one, which carries a
\* sound, as it was
C17_Witness ==
    /\ last.op = "tick"
    /\ phase = "mounted"
    /\ Len(uploadedSounds) > 0
    /\ \E i, k \in 1..Len(alarms) :
          /\ i \in last.hit
          /\ k \notin last.hit
          /\ alarms[k].soundId # NULL
          /\ alarms[k].time # last.cur
          /\ Unset(alarms[k])

\* the tick rule as specified: an alarm fires when it is enabled, its time is
\* the bucket and its marker differs from the bucket; otherwise a marker that
\* is set but differs from the bucket is cleared
SpecifiedFires(a, bucket) ==
    a.enabled /\ a.time = bucket /\ a.lastTriggeredMinute # bucket

SpecifiedTick(a, bucket) ==
    IF SpecifiedFires(a, bucket) THEN [a EXCEPT !.lastTriggeredMinute = bucket]
    ELSE IF a.lastTriggeredMinute # NULL /\ a.lastTriggeredMinute # bucket
         THEN [a EXCEPT !.lastTriggeredMinute = NULL]
    ELSE a

\* C18: at every tick the implemented rule (lines 84, 89) fires exactly the
\* alarms the specified rule fires and maps every alarm to what the specified
\* rule maps it to; a tick that completes has passed exactly those alarms to
\* triggerAlarm and returns exactly the specified list.
C18_TickRefinesRule ==
    [][(last'.op = "tick" /\ phase = "mounted") =>
          LET bucket == last'.cur
              specified == {i \in 1..Len(alarms) : SpecifiedFires(alarms[i], bucket)}
          IN  /\ {i \in 1..Len(alarms) : Fires(alarms[i], bucket)} = specified
              /\ \A i \in 1..Len(alarms) :
                    TickAlarm(alarms[i], bucket) = SpecifiedTick(alarms[i], bucket)
              /\ phase' = "mounted" =>
                    /\ last'.hit = specified
                    /\ alarms' = [i \in 1..Len(alarms) |->
                                     SpecifiedTick(alarms[i], bucket)]]_vars

\* a tick has just passed over an enabled alarm whose time is the bucket and
\* whose marker is the bucket (set, so the implemented test skips it; equal to
\* the bucket, so the specified test skips it) and over an alarm of another time
C18_Witness ==
    /\ last.op = "tick"
    /\ phase = "mounted"
    /\ \E i, k \in 1..Len(alarms) :
          /\ alarms[i].enabled
          /\ alarms[i].time = last.cur
          /\ alarms[i].lastTriggeredMinute = last.cur
          /\ i \notin last.hit
          /\ alarms[k].time # last.cur
          /\ Unset(alarms[k])

\* C19: every step works on the latest alarm list.  A tick that completes
\* keeps the list's length and every alarm's id, time, label, enabled and
\* sound as the user operations left them, and calls triggerAlarm only with
\* enabled alarms of that list.  A user operation makes no triggerAlarm call
\* and either appends one alarm with no marker to the list, or keeps the
\* length and every alarm's id, time and marker, or removes the alarms of one
\* id (or all alarms) and keeps the others as they were.
C19_NoLostUpdates ==
    [][(phase = "mounted" /\ phase' = "mounted") =>
          IF last'.op = "tick"
          THEN /\ Len(alarms') = Len(alarms)
               /\ \A i \in 1..Len(alarms) :
                     /\ alarms'[i].id = alarms[i].id
                     /\ alarms'[i].time = alarms[i].time
                     /\ alarms'[i].label = alarms[i].label
                     /\ alarms'[i].enabled = alarms[i].enabled
                     /\ alarms'[i].soundId = alarms[i].soundId
               /\ \A j \in 1..Len(fired') :
                     /\ fired'[j].idx \in 1..Len(alarms)
                     /\ fired'[j].alarm = alarms[fired'[j].idx]
                     /\ alarms[fired'[j].idx].enabled
          ELSE /\ fired' = << >>
               /\ \/ /\ Len(alarms') = Len(alarms) + 1
                     /\ SubSeq(alarms', 1, Len(alarms)) = alarms
                     /\ Unset(alarms'[Len(alarms')])
                  \/ /\ Len(alarms') = Len(alarms)
                     /\ \A i \in 1..Len(alarms) :
                           /\ alarms'[i].id = alarms[i].id
                           /\ alarms'[i].time = alarms[i].time
                           /\ alarms'[i].lastTriggeredMinute = alarms[i].lastTriggeredMinute
                  \/ /\ Len(alarms') < Len(alarms)
                     /\ \/ alarms' = << >>
                        \/ \E id \in UidValues :
                              alarms' = SelectIdx(alarms,
                                           {i \in 1..Len(alarms) : alarms[i].id # id})]_vars

\* a tick has just passed over an alarm that an earlier tick marked in this
\* bucket and that the user has switched off and given a sound since: the
\* marker is still there and the alarm is still off
C19_Witness ==
    /\ last.op = "tick"
    /\ phase = "mounted"
    /\ \E i \in 1..Len(alarms) :
          /\ ~alarms[i].enabled
          /\ alarms[i].lastTriggeredMinute = last.cur
          /\ alarms[i].soundId # NULL
          /\ i \notin last.hit

====
